---------------------------- MODULE Spec2Model ----------------------------
(***************************************************************************)
(* Verification model of the ProteinMPNN tying utilities:                  *)
(*   - ProteinMPNNInputFileBuilder (tied_input_builder.py), the record     *)
(*     store over parsed_pdbs.jsonl / tied_pdbs.jsonl / fixed_pdbs.jsonl   *)
(*   - create_fixed_and_tied_residue_sets (tied_input_builder.py)          *)
(*   - split_chains_by_residue_distance (rfdiffusion_utils.py)             *)
(*   - create_protein_mpnn_run_command (tied_run_command.py)               *)
(* Each component has its own specification (SpecStore, SpecTied,          *)
(* SpecSplit, SpecCmd); the variables of the other components stay idle.   *)
(***************************************************************************)
EXTENDS Integers, Sequences, FiniteSets, TLC

VARIABLES
    \* ---- file system under output_dir_path
    dirExists,              \* os.path.exists(output_dir_path)
    tiedFile,               \* tied_pdbs.jsonl   : [exists, lines]
    fixedFile,              \* fixed_pdbs.jsonl  : [exists, lines]
    parsedFile,             \* parsed_pdbs.jsonl : [exists, lines]
    \* ---- the ProteinMPNNInputFileBuilder object
    constructed,            \* __init__ has run
    hasRecords,             \* the attributes _all_tied_records/_all_fixed_records are bound
    all_tied_records,       \* self._all_tied_records
    all_fixed_records,      \* self._all_fixed_records
    existing_pdb_names,     \* self._existing_pdb_names
    added_pdbs,             \* self._added_pdbs
    result,                 \* outcome of the last call on the store
    \* ---- call history of the store (what the caller did and saw)
    madeDir,                \* __init__ took the os.makedirs branch
    accepted,               \* design names accepted by add on this object, in order
    sinceFlush,             \* parsed records accepted since the last successful store()
    sessions,               \* number of objects constructed so far
    prev                    \* the object replaced by the latest construction

storeVars == <<dirExists, tiedFile, fixedFile, parsedFile, constructed, hasRecords,
               all_tied_records, all_fixed_records, existing_pdb_names, added_pdbs,
               result, madeDir, accepted, sinceFlush, sessions, prev>>

(***************************************************************************)
(* Bounds                                                                  *)
(***************************************************************************)
MaxSessions == 2        \* objects constructed against the directory
MaxAdds == 2            \* accepted adds per object

(***************************************************************************)
(* Python dict and JSON                                                    *)
(***************************************************************************)
EmptyDict == [k \in {} |-> 0]

DictSet(d, k, v) == [x \in (DOMAIN d) \cup {k} |-> IF x = k THEN v ELSE d[x]]

\* dict.update(other): keys of other win
DictUpdate(d, other) ==
    [x \in (DOMAIN d) \cup (DOMAIN other) |-> IF x \in DOMAIN other THEN other[x] ELSE d[x]]

\* json.dumps of a dict with string keys: one line of text holding a JSON object
JsonDumps(d) == [json |-> "object", members |-> {<<k, d[k]>> : k \in DOMAIN d}]

\* json.loads of such a line: the dict again
JsonLoads(line) ==
    [k \in {m[1] : m \in line.members} |-> (CHOOSE m \in line.members : m[1] = k)[2]]

NoFile == [exists |-> FALSE, lines |-> <<>>]

\* open(path, 'w+') ; f.write(text + '\n')
WriteLine(text) == [exists |-> TRUE, lines |-> <<text>>]

\* open(path, 'w+') alone: the file is created or truncated
Truncated == [exists |-> TRUE, lines |-> <<>>]

RECURSIVE DumpEach(_)
DumpEach(records) ==
    IF records = <<>> THEN <<>>
    ELSE <<JsonDumps(Head(records))>> \o DumpEach(Tail(records))

\* open(path, 'a+') ; one f.write(json.dumps(r) + '\n') per record
AppendLines(file, records) ==
    [exists |-> TRUE, lines |-> file.lines \o DumpEach(records)]

(***************************************************************************)
(* Inputs of the store                                                     *)
(***************************************************************************)
DesignNames == {"D1", "D2"}

\* parsed_pdb dicts as make_protein_mpnn_pdb_input builds them (name, seq); the
\* caller passes the record and the design name separately
ParsedRecords == {[name |-> n, seq |-> "GA"] : n \in DesignNames}

\* tied_residues_by_chain lists as create_fixed_and_tied_residue_sets builds them
TiedChoices == { <<>>,
                 << [A |-> <<<<1>>, <<"1.0">>>>, B |-> <<<<1>>, <<"1.0">>>>] >> }

\* fixed_residues_by_chain: always the empty dict
FixedChoices == { EmptyDict }

NoResult == [op |-> "none", name |-> "", outcome |-> "none"]
NoPrev == [constructed |-> FALSE, hasRecords |-> FALSE, tied |-> EmptyDict,
           fixed |-> EmptyDict, accepted |-> <<>>, flushed |-> FALSE]

(***************************************************************************)
(* load_and_merge_existing_json_records                                    *)
(***************************************************************************)
RECURSIVE MergeLines(_, _)
MergeLines(lines, acc) ==
    IF lines = <<>> THEN acc
    ELSE MergeLines(Tail(lines), DictUpdate(acc, JsonLoads(Head(lines))))

\* a missing file (FileNotFoundError) gives the empty dict
load_and_merge_existing_json_records(file) ==
    IF file.exists THEN MergeLines(file.lines, EmptyDict) ELSE EmptyDict

\* the names of the records of parsed_pdbs.jsonl
LoadedNames(file) ==
    IF file.exists
    THEN {JsonLoads(file.lines[i])["name"] : i \in 1..Len(file.lines)}
    ELSE {}

(***************************************************************************)
(* ProteinMPNNInputFileBuilder                                             *)
(***************************************************************************)
StoreInit ==
    /\ dirExists \in BOOLEAN
    /\ tiedFile = NoFile
    /\ fixedFile = NoFile
    /\ parsedFile = NoFile
    /\ constructed = FALSE
    /\ hasRecords = FALSE
    /\ all_tied_records = EmptyDict
    /\ all_fixed_records = EmptyDict
    /\ existing_pdb_names = {}
    /\ added_pdbs = <<>>
    /\ result = NoResult
    /\ madeDir = FALSE
    /\ accepted = <<>>
    /\ sinceFlush = <<>>
    /\ sessions = 0
    /\ prev = NoPrev

\* what the caller keeps of the object it constructed before
Snapshot ==
    [constructed |-> constructed, hasRecords |-> hasRecords,
     tied |-> all_tied_records, fixed |-> all_fixed_records,
     accepted |-> accepted,
     flushed |-> (result.op = "store" /\ result.outcome = "ok")]

\* the part of __init__ shared by both branches
InitCommon ==
    /\ sessions < MaxSessions
    /\ sessions' = sessions + 1
    /\ constructed' = TRUE
    /\ added_pdbs' = <<>>
    /\ accepted' = <<>>
    /\ sinceFlush' = <<>>
    /\ prev' = Snapshot
    /\ result' = [op |-> "init", name |-> "", outcome |-> "ok"]
    /\ UNCHANGED <<tiedFile, fixedFile, parsedFile>>

\* __init__, directory missing: os.makedirs, and nothing else is bound
init_makedirs ==
    /\ ~dirExists
    /\ InitCommon
    /\ dirExists' = TRUE
    /\ madeDir' = TRUE
    /\ existing_pdb_names' = {}
    /\ hasRecords' = FALSE
    /\ UNCHANGED <<all_tied_records, all_fixed_records>>

\* load_existing_records
load_existing_records ==
    /\ all_tied_records' = load_and_merge_existing_json_records(tiedFile)
    /\ all_fixed_records' = load_and_merge_existing_json_records(fixedFile)
    /\ existing_pdb_names' = LoadedNames(parsedFile)
    /\ hasRecords' = TRUE

\* __init__, directory present: load_existing_records
init_load ==
    /\ dirExists
    /\ InitCommon
    /\ madeDir' = FALSE
    /\ load_existing_records
    /\ UNCHANGED dirExists

AddCall(outcome, pdb_name) == [op |-> "add", name |-> pdb_name, outcome |-> outcome]

\* add_tied_and_fixed_pdb: pdb_name in self._existing_pdb_names
add_duplicate(pdb_name) ==
    /\ constructed
    /\ pdb_name \in existing_pdb_names
    /\ result' = AddCall("ValueError", pdb_name)
    /\ UNCHANGED <<dirExists, tiedFile, fixedFile, parsedFile, constructed, hasRecords,
                   all_tied_records, all_fixed_records, existing_pdb_names, added_pdbs,
                   madeDir, accepted, sinceFlush, sessions, prev>>

\* add_tied_and_fixed_pdb: self._all_tied_records is not bound
add_unbound(pdb_name) ==
    /\ constructed
    /\ pdb_name \notin existing_pdb_names
    /\ ~hasRecords
    /\ result' = AddCall("AttributeError", pdb_name)
    /\ UNCHANGED <<dirExists, tiedFile, fixedFile, parsedFile, constructed, hasRecords,
                   all_tied_records, all_fixed_records, existing_pdb_names, added_pdbs,
                   madeDir, accepted, sinceFlush, sessions, prev>>

\* add_tied_and_fixed_pdb: the record is staged
add_tied_and_fixed_pdb(pdb_name, parsed_pdb, tied_residues_by_chain, fixed_residues_by_chain) ==
    /\ constructed
    /\ pdb_name \notin existing_pdb_names
    /\ hasRecords
    /\ Len(accepted) < MaxAdds
    /\ all_tied_records' = DictSet(all_tied_records, pdb_name, tied_residues_by_chain)
    /\ all_fixed_records' = DictSet(all_fixed_records, pdb_name, fixed_residues_by_chain)
    /\ added_pdbs' = Append(added_pdbs, parsed_pdb)
    /\ accepted' = Append(accepted, pdb_name)
    /\ sinceFlush' = Append(sinceFlush, parsed_pdb)
    /\ result' = AddCall("ok", pdb_name)
    /\ UNCHANGED <<dirExists, tiedFile, fixedFile, parsedFile, constructed, hasRecords,
                   existing_pdb_names, madeDir, sessions, prev>>

\* store that leaves self._added_pdbs as it is after writing
store_keeps_staged ==
    /\ constructed
    /\ hasRecords
    /\ tiedFile' = WriteLine(JsonDumps(all_tied_records))
    /\ fixedFile' = WriteLine(JsonDumps(all_fixed_records))
    /\ parsedFile' = AppendLines(parsedFile, added_pdbs)
    /\ sinceFlush' = <<>>
    /\ result' = [op |-> "store", name |-> "", outcome |-> "ok"]
    /\ UNCHANGED <<dirExists, constructed, hasRecords, all_tied_records, all_fixed_records,
                   existing_pdb_names, added_pdbs, madeDir, accepted, sessions, prev>>

\* store: the three files are written and the staged records cleared
store ==
    /\ constructed
    /\ hasRecords
    /\ tiedFile' = WriteLine(JsonDumps(all_tied_records))
    /\ fixedFile' = WriteLine(JsonDumps(all_fixed_records))
    /\ parsedFile' = AppendLines(parsedFile, added_pdbs)
    /\ added_pdbs' = <<>>
    /\ sinceFlush' = <<>>
    /\ result' = [op |-> "store", name |-> "", outcome |-> "ok"]
    /\ UNCHANGED <<dirExists, constructed, hasRecords, all_tied_records, all_fixed_records,
                   existing_pdb_names, madeDir, accepted, sessions, prev>>

\* store: tied_pdbs.jsonl is opened 'w+', then self._all_tied_records is not bound
store_unbound ==
    /\ constructed
    /\ ~hasRecords
    /\ tiedFile' = Truncated
    /\ result' = [op |-> "store", name |-> "", outcome |-> "AttributeError"]
    /\ UNCHANGED <<dirExists, fixedFile, parsedFile, constructed, hasRecords,
                   all_tied_records, all_fixed_records, existing_pdb_names, added_pdbs,
                   madeDir, accepted, sinceFlush, sessions, prev>>

(***************************************************************************)
(* split_chains_by_residue_distance (rfdiffusion_utils.py)                 *)
(* A residue is named by its position in input_pose, a Pose by the         *)
(* sequence of residues appended to it.                                    *)
(***************************************************************************)
VARIABLES
    total_residue,          \* input_pose.total_residue()
    ca_distance,            \* ca_distance[i]: CA-CA distance of residues i and i+1
    s_pc,                   \* position in the function
    residue_index,          \* loop variable
    r2,                     \* local r2; 0 while the name is unbound
    cur_chain_index,
    cur_chain_pose,
    all_residue_pose,
    chain_poses,            \* the returned dict
    s_error                 \* exception raised, "" if none

splitVars == <<total_residue, ca_distance, s_pc, residue_index, r2, cur_chain_index,
               cur_chain_pose, all_residue_pose, chain_poses, s_error>>

MaxResidues == 5        \* residues of an input pose

\* CA-CA distances in Angstrom: bonded neighbours, the threshold itself, beyond it
Distances == {4, 10, 11}

chain_names == <<"A", "B", "C", "D", "E", "F", "G", "H", "I", "J", "K", "L", "M",
                 "N", "O", "P", "Q", "R", "S", "T", "U", "V", "W", "X", "Y", "Z">>

\* the comparison written with >= in place of >
StartsNewChain_ge(distance) == distance >= 10

\* if distance > 10: a new chain starts
StartsNewChain(distance) == distance > 10

SplitInit ==
    /\ total_residue \in 0..MaxResidues
    /\ ca_distance \in [1..(total_residue - 1) -> Distances]
    /\ s_pc = "loop"
    /\ residue_index = 1
    /\ r2 = 0
    /\ cur_chain_index = 0
    /\ cur_chain_pose = <<>>
    /\ all_residue_pose = <<>>
    /\ chain_poses = EmptyDict
    /\ s_error = ""

\* loop body for residue_index in range(1, total_residue), same chain goes on.
\* The test residue_index == total_residue of the body is never true in this range.
split_same_chain ==
    /\ s_pc = "loop"
    /\ residue_index < total_residue
    /\ ~StartsNewChain(ca_distance[residue_index])
    /\ r2' = residue_index + 1
    /\ cur_chain_pose' = Append(cur_chain_pose, residue_index)
    /\ all_residue_pose' = Append(all_residue_pose, residue_index)
    /\ residue_index' = residue_index + 1
    /\ UNCHANGED <<total_residue, ca_distance, s_pc, cur_chain_index, chain_poses, s_error>>

\* loop body, the current chain is closed and a new one started
split_new_chain ==
    /\ s_pc = "loop"
    /\ residue_index < total_residue
    /\ StartsNewChain(ca_distance[residue_index])
    /\ r2' = residue_index + 1
    /\ all_residue_pose' = Append(all_residue_pose, residue_index)
    /\ chain_poses' = DictSet(chain_poses, chain_names[cur_chain_index + 1],
                              Append(cur_chain_pose, residue_index))
    /\ cur_chain_index' = cur_chain_index + 1
    /\ cur_chain_pose' = <<>>
    /\ residue_index' = residue_index + 1
    /\ UNCHANGED <<total_residue, ca_distance, s_pc, s_error>>

\* after the loop: the last residue r2 is appended and the dict returned
split_return ==
    /\ s_pc = "loop"
    /\ residue_index >= total_residue
    /\ r2 # 0
    /\ cur_chain_pose' = Append(cur_chain_pose, r2)
    /\ all_residue_pose' = Append(all_residue_pose, r2)
    /\ chain_poses' = DictSet(DictSet(chain_poses, chain_names[cur_chain_index + 1],
                                      Append(cur_chain_pose, r2)),
                              "all", Append(all_residue_pose, r2))
    /\ s_pc' = "returned"
    /\ UNCHANGED <<total_residue, ca_distance, residue_index, r2, cur_chain_index, s_error>>

\* after a loop of no iterations r2 was never bound
split_unbound ==
    /\ s_pc = "loop"
    /\ residue_index >= total_residue
    /\ r2 = 0
    /\ s_pc' = "raised"
    /\ s_error' = "UnboundLocalError"
    /\ UNCHANGED <<total_residue, ca_distance, residue_index, r2, cur_chain_index,
                   cur_chain_pose, all_residue_pose, chain_poses>>

(***************************************************************************)
(* create_fixed_and_tied_residue_sets (tied_input_builder.py)              *)
(* combined_pose is the sequence of residue(i).chain() numbers; a row of   *)
(* tied_chains is <<chain_1, chain_2>> or <<chain_1, chain_2, weight>>.    *)
(* designed_residues only feeds designed_residues_set, which is not read.  *)
(***************************************************************************)
VARIABLES
    combined_pose,
    tied_chains,
    t_pc,                   \* position in the function
    row_index,              \* position of the first loop in tied_chains
    all_tied_chains,
    known_tied_chains,
    scan_index,             \* i of the chain-length loop
    chain_lengths,
    chain_starts,
    rule_index,             \* position of the tying loop in all_tied_chains
    tie_index,              \* i of the inner loop
    tied_residues_by_chain,
    t_result                \* the returned dict or the exception raised

tiedVars == <<combined_pose, tied_chains, t_pc, row_index, all_tied_chains,
              known_tied_chains, scan_index, chain_lengths, chain_starts, rule_index,
              tie_index, tied_residues_by_chain, t_result>>

MaxChainLen == 2        \* residues of one chain
MaxRules == 2           \* rows of tied_chains

CHAIN_NAMES == <<"A", "B", "C", "D", "E", "F", "G", "H">>

\* weight = 1.0 when the row gives none
DefaultWeight == "1.0"

\* a pose of k chains numbered 1..k, chain c holding lens[c] residues
RECURSIVE PoseOfLengths(_, _)
PoseOfLengths(lens, c) ==
    IF c > Len(lens) THEN <<>>
    ELSE [i \in 1..lens[c] |-> c] \o PoseOfLengths(lens, c + 1)

\* combined poses of one chain and of two chains
ChainCounts == {1, 2}

CombinedPoses ==
    UNION { {PoseOfLengths(lens, 1) : lens \in [1..k -> 1..MaxChainLen]} : k \in ChainCounts }

\* chain names a row may use; no pose has a chain C, those of one chain have no B
RowNames == {CHAIN_NAMES[c] : c \in 1..3}

TiedRows == {<<a, b>> : a \in RowNames, b \in RowNames}
            \cup {<<a, b, "0.5">> : a \in RowNames, b \in RowNames}

RuleLists == UNION { [1..n -> TiedRows] : n \in 0..MaxRules }

NoTiedResult == [kind |-> "none"]

TiedInit ==
    /\ combined_pose \in CombinedPoses
    /\ tied_chains \in RuleLists
    /\ t_pc = "rows"
    /\ row_index = 1
    /\ all_tied_chains = <<>>
    /\ known_tied_chains = {}
    /\ scan_index = 1
    /\ chain_lengths = EmptyDict
    /\ chain_starts = EmptyDict
    /\ rule_index = 1
    /\ tie_index = 0
    /\ tied_residues_by_chain = <<>>
    /\ t_result = NoTiedResult

\* the weight a row carries
RowWeight(row) == IF Len(row) = 2 THEN DefaultWeight ELSE row[3]

\* the loop  for row in tied_chains,  all its iterations
tied_rows ==
    /\ t_pc = "rows"
    /\ all_tied_chains' =
          [r \in 1..Len(tied_chains) |->
              <<tied_chains[r][1], tied_chains[r][2], RowWeight(tied_chains[r])>>]
    /\ known_tied_chains' =
          UNION {{tied_chains[r][1], tied_chains[r][2]} : r \in 1..Len(tied_chains)}
    /\ row_index' = Len(tied_chains) + 1
    /\ t_pc' = "scan"
    /\ UNCHANGED <<combined_pose, tied_chains, scan_index, chain_lengths, chain_starts,
                   rule_index, tie_index, tied_residues_by_chain, t_result>>

\* the iterations i, i+1, ... of the chain-length loop on the pair of dicts
RECURSIVE ScanFrom(_, _, _, _)
ScanFrom(pose, i, lengths, starts) ==
    IF i > Len(pose) THEN [lengths |-> lengths, starts |-> starts]
    ELSE LET chain_name == CHAIN_NAMES[pose[i]]
             seen == chain_name \in DOMAIN lengths
         IN  ScanFrom(pose, i + 1,
                      DictSet(lengths, chain_name, IF seen THEN lengths[chain_name] + 1 ELSE 1),
                      IF seen THEN starts ELSE DictSet(starts, chain_name, i))

\* the loop  for i in range(1, total_residue + 1),  all its iterations
tied_scan ==
    /\ t_pc = "scan"
    /\ LET scanned == ScanFrom(combined_pose, 1, chain_lengths, chain_starts) IN
        /\ chain_lengths' = scanned.lengths
        /\ chain_starts' = scanned.starts
    /\ scan_index' = Len(combined_pose) + 1
    /\ t_pc' = "tie_rule"
    /\ UNCHANGED <<combined_pose, tied_chains, row_index, all_tied_chains,
                   known_tied_chains, rule_index, tie_index, tied_residues_by_chain,
                   t_result>>

\* chain_1 not in chain_lengths or chain_2 not in chain_lengths
InvalidNames(chain_1, chain_2) ==
    chain_1 \notin DOMAIN chain_lengths \/ chain_2 \notin DOMAIN chain_lengths

\* a rule with a missing chain is passed over instead of raising
tied_invalid_names_skip ==
    /\ t_pc = "tie_rule"
    /\ rule_index <= Len(all_tied_chains)
    /\ LET rule == all_tied_chains[rule_index] IN InvalidNames(rule[1], rule[2])
    /\ rule_index' = rule_index + 1
    /\ UNCHANGED <<combined_pose, tied_chains, t_pc, row_index, all_tied_chains,
                   known_tied_chains, scan_index, chain_lengths, chain_starts,
                   tie_index, tied_residues_by_chain, t_result>>

\* raise ValueError(f"Invalid chain names: {chain_1}, {chain_2}")
tied_invalid_names ==
    /\ t_pc = "tie_rule"
    /\ rule_index <= Len(all_tied_chains)
    /\ LET rule == all_tied_chains[rule_index] IN
        /\ InvalidNames(rule[1], rule[2])
        /\ t_result' = [kind |-> "ValueError", names |-> <<rule[1], rule[2]>>]
    /\ t_pc' = "raised"
    /\ UNCHANGED <<combined_pose, tied_chains, row_index, all_tied_chains,
                   known_tied_chains, scan_index, chain_lengths, chain_starts,
                   rule_index, tie_index, tied_residues_by_chain>>

\* the assert left out: chains of unequal length are tied over the first length
tied_length_mismatch_ignored ==
    /\ t_pc = "tie_rule"
    /\ rule_index <= Len(all_tied_chains)
    /\ LET rule == all_tied_chains[rule_index] IN
        /\ ~InvalidNames(rule[1], rule[2])
        /\ chain_lengths[rule[1]] # chain_lengths[rule[2]]
    /\ tie_index' = 1
    /\ t_pc' = "tie_residue"
    /\ UNCHANGED <<combined_pose, tied_chains, row_index, all_tied_chains,
                   known_tied_chains, scan_index, chain_lengths, chain_starts,
                   rule_index, tied_residues_by_chain, t_result>>

\* the assert on the two chain lengths fails
tied_length_mismatch ==
    /\ t_pc = "tie_rule"
    /\ rule_index <= Len(all_tied_chains)
    /\ LET rule == all_tied_chains[rule_index] IN
        /\ ~InvalidNames(rule[1], rule[2])
        /\ chain_lengths[rule[1]] # chain_lengths[rule[2]]
        /\ t_result' = [kind |-> "AssertionError", names |-> <<rule[1], rule[2]>>,
                        lengths |-> <<chain_lengths[rule[1]], chain_lengths[rule[2]]>>]
    /\ t_pc' = "raised"
    /\ UNCHANGED <<combined_pose, tied_chains, row_index, all_tied_chains,
                   known_tied_chains, scan_index, chain_lengths, chain_starts,
                   rule_index, tie_index, tied_residues_by_chain>>

\* both checks pass: the inner loop over range(1, total_chain_residue_len + 1) starts
tied_rule_ok ==
    /\ t_pc = "tie_rule"
    /\ rule_index <= Len(all_tied_chains)
    /\ LET rule == all_tied_chains[rule_index] IN
        /\ ~InvalidNames(rule[1], rule[2])
        /\ chain_lengths[rule[1]] = chain_lengths[rule[2]]
    /\ tie_index' = 1
    /\ t_pc' = "tie_residue"
    /\ UNCHANGED <<combined_pose, tied_chains, row_index, all_tied_chains,
                   known_tied_chains, scan_index, chain_lengths, chain_starts,
                   rule_index, tied_residues_by_chain, t_result>>

\* the record with the offset counted from 0
TiedRecord_zero_based(chain_1, chain_2, i, weight) ==
    DictSet(DictSet(EmptyDict, chain_1, <<<<i - 1>>, <<weight>>>>),
            chain_2, <<<<i - 1>>, <<weight>>>>)

\* {chain_1: [[i], [weight]], chain_2: [[i], [weight]]}
TiedRecord(chain_1, chain_2, i, weight) ==
    DictSet(DictSet(EmptyDict, chain_1, <<<<i>>, <<weight>>>>), chain_2, <<<<i>>, <<weight>>>>)

\* one iteration of the inner loop; after the last one the next rule is taken
tied_append ==
    /\ t_pc = "tie_residue"
    /\ LET rule == all_tied_chains[rule_index]
           total_chain_residue_len == chain_lengths[rule[1]]
       IN  /\ tie_index <= total_chain_residue_len
           /\ tied_residues_by_chain' =
                 Append(tied_residues_by_chain,
                        TiedRecord(rule[1], rule[2], tie_index, rule[3]))
           /\ IF tie_index + 1 > total_chain_residue_len
              THEN /\ rule_index' = rule_index + 1
                   /\ tie_index' = 0
                   /\ t_pc' = "tie_rule"
              ELSE /\ tie_index' = tie_index + 1
                   /\ UNCHANGED <<rule_index, t_pc>>
    /\ UNCHANGED <<combined_pose, tied_chains, row_index, all_tied_chains,
                   known_tied_chains, scan_index, chain_lengths, chain_starts, t_result>>

\* all rules done: the dict of the two results is returned
tied_return ==
    /\ t_pc = "tie_rule"
    /\ rule_index > Len(all_tied_chains)
    /\ t_result' = [kind |-> "return", fixed_residues_by_chain |-> EmptyDict,
                    tied_residues_by_chain |-> tied_residues_by_chain]
    /\ t_pc' = "returned"
    /\ UNCHANGED <<combined_pose, tied_chains, row_index, all_tied_chains,
                   known_tied_chains, scan_index, chain_lengths, chain_starts,
                   rule_index, tie_index, tied_residues_by_chain>>

(***************************************************************************)
(* create_protein_mpnn_run_command (tied_run_command.py)                   *)
(* A Python value carries its type; a float is carried by its repr.  The   *)
(* joined command string is carried by the sequence of its words.          *)
(***************************************************************************)
VARIABLES
    c_args,                 \* the arguments of the call
    c_pc,                   \* position in the function
    protein_mpnn_args,      \* the dict, as its items in insertion order
    cmd,                    \* the list cmd
    arg_index,              \* position of the loop over protein_mpnn_args.items()
    c_result                \* the returned string or the exception raised

cmdVars == <<c_args, c_pc, protein_mpnn_args, cmd, arg_index, c_result>>

MaxSeed == 2            \* seeds 0..MaxSeed, and no seed
MaxCount == 2           \* num_sequence_per_target and batch_size in 1..MaxCount

PyStr(s) == [type |-> "str", s |-> s, n |-> 0]
PyInt(n) == [type |-> "int", s |-> "", n |-> n]
PyFloat(repr) == [type |-> "float", s |-> repr, n |-> 0]
PyNone == [type |-> "NoneType", s |-> "", n |-> 0]

Digit(d) == CASE d = 0 -> "0" [] d = 1 -> "1" [] d = 2 -> "2" [] d = 3 -> "3"
              [] d = 4 -> "4" [] d = 5 -> "5" [] d = 6 -> "6" [] d = 7 -> "7"
              [] d = 8 -> "8" [] d = 9 -> "9"

\* str(n) of a non-negative int
RECURSIVE IntToStr(_)
IntToStr(n) == IF n < 10 THEN Digit(n) ELSE IntToStr(n \div 10) \o Digit(n % 10)

\* str(v), also what an f-string puts for {v}
Str(v) == IF v.type = "int" THEN IntToStr(v.n)
          ELSE IF v.type = "NoneType" THEN "None"
          ELSE v.s

\* truth value of v in  if v:
Truthy(v) == CASE v.type = "NoneType" -> FALSE
               [] v.type = "int" -> v.n # 0
               [] OTHER -> v.s # ""

CmdArgs ==
    [protein_mpnn_install_dir_path : {"/opt/ProteinMPNN"},
     input_dir_path : {"in1", "in2"},
     output_dir_path : {"out1", "out2"},
     num_sequence_per_target : {PyInt(k) : k \in 1..MaxCount},
     sampling_temp : {PyFloat("0.2"), PyFloat("0.1")},
     batch_size : {PyInt(k) : k \in 1..MaxCount},
     seed : {PyNone} \cup {PyInt(k) : k \in 0..MaxSeed},
     python_cmd_or_path : {"python"}]

NoCmdResult == [kind |-> "none", words |-> <<>>]

CmdInit ==
    /\ c_args \in CmdArgs
    /\ c_pc = "args"
    /\ protein_mpnn_args = <<>>
    /\ cmd = <<>>
    /\ arg_index = 1
    /\ c_result = NoCmdResult

\* the dict literal protein_mpnn_args = {...}
BaseArgs(a) ==
    << <<"jsonl_path", PyStr(a.input_dir_path \o "/parsed_pdbs.jsonl")>>,
       <<"tied_positions_jsonl", PyStr(a.input_dir_path \o "/tied_pdbs.jsonl")>>,
       <<"fixed_positions_jsonl", PyStr(a.input_dir_path \o "/fixed_pdbs.jsonl")>>,
       <<"out_folder", PyStr(a.output_dir_path)>>,
       <<"num_seq_per_target", PyStr(Str(a.num_sequence_per_target))>>,
       <<"sampling_temp", PyStr(Str(a.sampling_temp))>>,
       <<"batch_size", PyStr(Str(a.batch_size))>> >>

\* cmd = [python_cmd_or_path, py_file_path]
BaseCmd(a) ==
    << PyStr(a.python_cmd_or_path),
       PyStr(a.protein_mpnn_install_dir_path \o "/protein_mpnn_run.py") >>

\* if seed: is true, protein_mpnn_args['seed'] = int(seed)
cmd_args_seed ==
    /\ c_pc = "args"
    /\ Truthy(c_args.seed)
    /\ protein_mpnn_args' = Append(BaseArgs(c_args), <<"seed", PyInt(c_args.seed.n)>>)
    /\ cmd' = BaseCmd(c_args)
    /\ c_pc' = "loop"
    /\ UNCHANGED <<c_args, arg_index, c_result>>

\* if seed: is false
cmd_args_no_seed ==
    /\ c_pc = "args"
    /\ ~Truthy(c_args.seed)
    /\ protein_mpnn_args' = BaseArgs(c_args)
    /\ cmd' = BaseCmd(c_args)
    /\ c_pc' = "loop"
    /\ UNCHANGED <<c_args, arg_index, c_result>>

\* for arg_name, arg_value in protein_mpnn_args.items(): one iteration
cmd_append ==
    /\ c_pc = "loop"
    /\ arg_index <= Len(protein_mpnn_args)
    /\ cmd' = cmd \o << PyStr("--" \o protein_mpnn_args[arg_index][1]),
                        protein_mpnn_args[arg_index][2] >>
    /\ arg_index' = arg_index + 1
    /\ UNCHANGED <<c_args, c_pc, protein_mpnn_args, c_result>>

\* every item of cmd is a str
Joinable(items) == \A i \in 1..Len(items) : items[i].type = "str"

\* return ' '.join(cmd)
cmd_join ==
    /\ c_pc = "loop"
    /\ arg_index > Len(protein_mpnn_args)
    /\ Joinable(cmd)
    /\ c_result' = [kind |-> "return", words |-> [i \in 1..Len(cmd) |-> cmd[i].s]]
    /\ c_pc' = "returned"
    /\ UNCHANGED <<c_args, protein_mpnn_args, cmd, arg_index>>

\* ' '.join(cmd) meets an item that is not a str
cmd_join_type_error ==
    /\ c_pc = "loop"
    /\ arg_index > Len(protein_mpnn_args)
    /\ ~Joinable(cmd)
    /\ c_result' = [kind |-> "TypeError", words |-> <<>>]
    /\ c_pc' = "raised"
    /\ UNCHANGED <<c_args, protein_mpnn_args, cmd, arg_index>>

(***************************************************************************)
(* Specifications                                                          *)
(***************************************************************************)
vars == <<storeVars, splitVars, tiedVars, cmdVars>>

StoreIdle ==
    /\ dirExists = FALSE /\ tiedFile = NoFile /\ fixedFile = NoFile /\ parsedFile = NoFile
    /\ constructed = FALSE /\ hasRecords = FALSE
    /\ all_tied_records = EmptyDict /\ all_fixed_records = EmptyDict
    /\ existing_pdb_names = {} /\ added_pdbs = <<>> /\ result = NoResult
    /\ madeDir = FALSE /\ accepted = <<>> /\ sinceFlush = <<>> /\ sessions = 0
    /\ prev = NoPrev

SplitIdle ==
    /\ total_residue = 0 /\ ca_distance = <<>> /\ s_pc = "idle" /\ residue_index = 1
    /\ r2 = 0 /\ cur_chain_index = 0 /\ cur_chain_pose = <<>>
    /\ all_residue_pose = <<>> /\ chain_poses = EmptyDict /\ s_error = ""

TiedIdle ==
    /\ combined_pose = <<>> /\ tied_chains = <<>> /\ t_pc = "idle" /\ row_index = 1
    /\ all_tied_chains = <<>> /\ known_tied_chains = {} /\ scan_index = 1
    /\ chain_lengths = EmptyDict /\ chain_starts = EmptyDict /\ rule_index = 1
    /\ tie_index = 0 /\ tied_residues_by_chain = <<>> /\ t_result = NoTiedResult

CmdIdle ==
    /\ c_args = PyNone /\ c_pc = "idle" /\ protein_mpnn_args = <<>> /\ cmd = <<>>
    /\ arg_index = 1 /\ c_result = NoCmdResult

InitStore == StoreInit /\ SplitIdle /\ TiedIdle /\ CmdIdle

NextStore ==
    \/ (init_makedirs /\ UNCHANGED <<splitVars, tiedVars, cmdVars>>)
    \/ (init_load /\ UNCHANGED <<splitVars, tiedVars, cmdVars>>)
    \/ \E pdb_name \in DesignNames :
          add_duplicate(pdb_name) /\ UNCHANGED <<splitVars, tiedVars, cmdVars>>
    \/ \E pdb_name \in DesignNames :
          add_unbound(pdb_name) /\ UNCHANGED <<splitVars, tiedVars, cmdVars>>
    \/ \E pdb_name \in DesignNames, parsed_pdb \in ParsedRecords,
          tied \in TiedChoices, fixed \in FixedChoices :
          add_tied_and_fixed_pdb(pdb_name, parsed_pdb, tied, fixed)
          /\ UNCHANGED <<splitVars, tiedVars, cmdVars>>
    \/ (store /\ UNCHANGED <<splitVars, tiedVars, cmdVars>>)
    \/ (store_unbound /\ UNCHANGED <<splitVars, tiedVars, cmdVars>>)

SpecStore == InitStore /\ [][NextStore]_vars

InitSplit == SplitInit /\ StoreIdle /\ TiedIdle /\ CmdIdle

NextSplit ==
    \/ (split_same_chain /\ UNCHANGED <<storeVars, tiedVars, cmdVars>>)
    \/ (split_new_chain /\ UNCHANGED <<storeVars, tiedVars, cmdVars>>)
    \/ (split_return /\ UNCHANGED <<storeVars, tiedVars, cmdVars>>)
    \/ (split_unbound /\ UNCHANGED <<storeVars, tiedVars, cmdVars>>)

SpecSplit == InitSplit /\ [][NextSplit]_vars

InitTied == TiedInit /\ StoreIdle /\ SplitIdle /\ CmdIdle

NextTied ==
    \/ (tied_rows /\ UNCHANGED <<storeVars, splitVars, cmdVars>>)
    \/ (tied_scan /\ UNCHANGED <<storeVars, splitVars, cmdVars>>)
    \/ (tied_invalid_names /\ UNCHANGED <<storeVars, splitVars, cmdVars>>)
    \/ (tied_length_mismatch /\ UNCHANGED <<storeVars, splitVars, cmdVars>>)
    \/ (tied_rule_ok /\ UNCHANGED <<storeVars, splitVars, cmdVars>>)
    \/ (tied_append /\ UNCHANGED <<storeVars, splitVars, cmdVars>>)
    \/ (tied_return /\ UNCHANGED <<storeVars, splitVars, cmdVars>>)

SpecTied == InitTied /\ [][NextTied]_vars

InitCmd == CmdInit /\ StoreIdle /\ SplitIdle /\ TiedIdle

NextCmd ==
    \/ (cmd_args_seed /\ UNCHANGED <<storeVars, splitVars, tiedVars>>)
    \/ (cmd_args_no_seed /\ UNCHANGED <<storeVars, splitVars, tiedVars>>)
    \/ (cmd_append /\ UNCHANGED <<storeVars, splitVars, tiedVars>>)
    \/ (cmd_join /\ UNCHANGED <<storeVars, splitVars, tiedVars>>)
    \/ (cmd_join_type_error /\ UNCHANGED <<storeVars, splitVars, tiedVars>>)

SpecCmd == InitCmd /\ [][NextCmd]_vars

(***************************************************************************)
(* Properties of the record store                                          *)
(***************************************************************************)

\* C1: add fails with a duplicate error for a design name that was loaded at
\* construction or added earlier on the same object, so that no design name is
\* accepted by add more than once.
C1_NameAcceptedAtMostOnce ==
    /\ \A i, j \in 1..Len(accepted) : i # j => accepted[i] # accepted[j]
    /\ \A i \in 1..Len(accepted) : accepted[i] \notin existing_pdb_names

\* C2: after one record was added to a store and flushed, a fresh store against
\* the same directory holds the tied and fixed mappings of the first store, and
\* an add with the same design name raises the duplicate error.
C2_RoundTrip ==
    (prev.constructed /\ prev.flushed /\ Len(prev.accepted) = 1) =>
        /\ hasRecords
        /\ accepted = <<>> =>
              /\ all_tied_records = prev.tied
              /\ all_fixed_records = prev.fixed
        /\ (result.op = "add" /\ result.name = prev.accepted[1]) =>
              result.outcome = "ValueError"

\* C3: a store constructed against a missing directory creates it and starts
\* empty, so that adds of new design names and the flush succeed and the flush
\* writes the records.
C3_FreshDirectory ==
    madeDir =>
        /\ dirExists
        /\ existing_pdb_names = {}
        /\ result.op = "add" => result.outcome = "ok"
        /\ result.op = "store" =>
              /\ result.outcome = "ok"
              /\ tiedFile.lines = <<JsonDumps(all_tied_records)>>
              /\ Len(parsedFile.lines) = Len(accepted)

\* the step is a successful store()
FlushStep == result'.op = "store" /\ result'.outcome = "ok"

\* C4: a successful flush leaves the tied and the fixed file with exactly one
\* line, the full in-memory mapping; the parsed-records file is its content
\* before the flush followed by the records accepted since the previous flush,
\* once each and in add order; and nothing stays staged.
C4_FlushWritesStagedOnce ==
    [][FlushStep =>
        /\ tiedFile'.lines = <<JsonDumps(all_tied_records')>>
        /\ fixedFile'.lines = <<JsonDumps(all_fixed_records')>>
        /\ parsedFile'.lines = parsedFile.lines \o DumpEach(sinceFlush)
        /\ added_pdbs' = <<>>]_vars

\* a second flush of an object that wrote two records and has a mapping to write
C4_Witness ==
    /\ result.op = "store" /\ result.outcome = "ok"
    /\ Len(accepted) = 2
    /\ Len(parsedFile.lines) = 2
    /\ added_pdbs = <<>>
    /\ DOMAIN all_tied_records = DesignNames
    /\ tiedFile.lines = <<JsonDumps(all_tied_records)>>

(***************************************************************************)
(* Properties of split_chains_by_residue_distance                          *)
(***************************************************************************)
SplitDone == s_pc \in {"returned", "raised"}

\* number of the chain residue i belongs to: one more than the cuts before it
ChainOf(i) == 1 + Cardinality({j \in 1..(i - 1) : ca_distance[j] > 10})

\* the residues of chain c, ascending
RunOf(c) ==
    LET members == {i \in 1..total_residue : ChainOf(i) = c}
        first == CHOOSE i \in members : \A j \in members : i <= j
    IN  [n \in 1..Cardinality(members) |-> first + n - 1]

RECURSIVE ConcatChains(_, _)
ConcatChains(c, k) ==
    IF c > k THEN <<>> ELSE chain_poses[chain_names[c]] \o ConcatChains(c + 1, k)

\* C5: for two or more residues the named chains are the maximal runs of
\* consecutive residues, cut exactly where the CA-CA distance is above 10,
\* named A, B, C, ... in order; their concatenation and the 'all' entry are
\* the residues in original order; without a distance above 10 there is one
\* named chain.
C5_ChainsAreMaximalRuns ==
    (total_residue >= 2 /\ SplitDone) =>
        LET k == ChainOf(total_residue)
            original == [i \in 1..total_residue |-> i]
        IN  /\ s_pc = "returned"
            /\ DOMAIN chain_poses = {chain_names[c] : c \in 1..k} \cup {"all"}
            /\ \A c \in 1..k : chain_poses[chain_names[c]] = RunOf(c)
            /\ ConcatChains(1, k) = original
            /\ chain_poses["all"] = original
            /\ (\A j \in 1..(total_residue - 1) : ca_distance[j] <= 10) =>
                  DOMAIN chain_poses = {"A", "all"}

\* a pose cut once, with a distance of exactly 10 inside a chain
C5_Witness ==
    /\ s_pc = "returned"
    /\ total_residue >= 4
    /\ \E j \in 1..(total_residue - 1) : ca_distance[j] = 10
    /\ DOMAIN chain_poses = {"A", "B", "all"}
    /\ Len(chain_poses["A"]) >= 2

\* C6: a pose of a single residue gives the chain A holding that residue and
\* the 'all' entry holding it.
C6_SingleResidue ==
    (total_residue = 1 /\ SplitDone) =>
        /\ s_pc = "returned"
        /\ chain_poses = [A |-> <<1>>, all |-> <<1>>]

(***************************************************************************)
(* Properties of create_fixed_and_tied_residue_sets                        *)
(***************************************************************************)
TiedDone == t_pc \in {"returned", "raised"}

\* residues of the chain of that name in combined_pose
ResidueCount(name) ==
    Cardinality({i \in 1..Len(combined_pose) : CHAIN_NAMES[combined_pose[i]] = name})

Present(name) == ResidueCount(name) > 0

UnknownRow(r) == ~Present(tied_chains[r][1]) \/ ~Present(tied_chains[r][2])

UnequalRow(r) ==
    /\ ~UnknownRow(r)
    /\ ResidueCount(tied_chains[r][1]) # ResidueCount(tied_chains[r][2])

BadRows == {r \in 1..Len(tied_chains) : UnknownRow(r) \/ UnequalRow(r)}

FirstBadRow == CHOOSE r \in BadRows : \A q \in BadRows : r <= q

\* the block of records of one row
BlockOf(row) ==
    LET weight == IF Len(row) = 3 THEN row[3] ELSE "1.0"
    IN  [i \in 1..ResidueCount(row[1]) |->
            [c \in {row[1], row[2]} |-> <<<<i>>, <<weight>>>>]]

RECURSIVE BlocksUpTo(_)
BlocksUpTo(n) ==
    IF n = 0 THEN <<>> ELSE BlocksUpTo(n - 1) \o BlockOf(tied_chains[n])

C8_RaisesBeforeAnyIteration ==
    ((\E r \in 1..Len(tied_chains) : UnknownRow(r)) /\ TiedDone) =>
        /\ t_result.kind = "ValueError"
        /\ \E r \in 1..Len(tied_chains) :
              UnknownRow(r) /\ t_result.names = <<tied_chains[r][1], tied_chains[r][2]>>
        /\ scan_index = 1
        /\ tied_residues_by_chain = <<>>

\* C8 amended: a rule list with a rule naming a missing chain returns nothing:
\* the call raises, after the scan of all residues and after the records of
\* the rules before the first bad rule were accumulated; the error is the
\* invalid-names error with both names of the first bad rule when that rule
\* names a missing chain.
C8_RaisesAtFirstBadRule ==
    ((\E r \in 1..Len(tied_chains) : UnknownRow(r)) /\ TiedDone) =>
        /\ t_pc = "raised"
        /\ t_result.kind \in {"ValueError", "AssertionError"}
        /\ scan_index = Len(combined_pose) + 1
        /\ tied_residues_by_chain = BlocksUpTo(FirstBadRow - 1)
        /\ UnknownRow(FirstBadRow) =>
              /\ t_result.kind = "ValueError"
              /\ t_result.names = <<tied_chains[FirstBadRow][1], tied_chains[FirstBadRow][2]>>

\* the second rule names a missing chain, the first one was tied
C8_Witness ==
    /\ t_pc = "raised"
    /\ t_result.kind = "ValueError"
    /\ rule_index = 2
    /\ UnknownRow(2)
    /\ Len(tied_residues_by_chain) = 2

\* C9 as stated: a rule list with a rule naming two existing chains of unequal
\* length raises the error reporting both names and both lengths of such a rule.
C9_RaisesLengthError ==
    ((\E r \in 1..Len(tied_chains) : UnequalRow(r)) /\ TiedDone) =>
        /\ t_result.kind = "AssertionError"
        /\ \E r \in 1..Len(tied_chains) :
              /\ UnequalRow(r)
              /\ t_result.names = <<tied_chains[r][1], tied_chains[r][2]>>
              /\ t_result.lengths = <<ResidueCount(tied_chains[r][1]),
                                      ResidueCount(tied_chains[r][2])>>

\* C9 amended: a rule list with a rule naming two existing chains of unequal
\* length returns nothing: the call raises, and when the first bad rule is
\* such a rule the error reports its two names and its two lengths; when a
\* rule before it names a missing chain the invalid-names error is raised.
C9_RaisesLengthErrorAtFirstBadRule ==
    ((\E r \in 1..Len(tied_chains) : UnequalRow(r)) /\ TiedDone) =>
        /\ t_pc = "raised"
        /\ IF UnequalRow(FirstBadRow)
           THEN /\ t_result.kind = "AssertionError"
                /\ t_result.names = <<tied_chains[FirstBadRow][1], tied_chains[FirstBadRow][2]>>
                /\ t_result.lengths = <<ResidueCount(tied_chains[FirstBadRow][1]),
                                        ResidueCount(tied_chains[FirstBadRow][2])>>
           ELSE /\ t_result.kind = "ValueError"
                /\ t_result.names = <<tied_chains[FirstBadRow][1], tied_chains[FirstBadRow][2]>>

\* chains A of one and B of two residues paired by the second rule
C9_Witness ==
    /\ t_pc = "raised"
    /\ t_result.kind = "AssertionError"
    /\ rule_index = 2
    /\ t_result.lengths = <<1, 2>>

(***************************************************************************)
(* Properties of create_protein_mpnn_run_command                           *)
(***************************************************************************)
CmdDone == c_pc \in {"returned", "raised"}

\* the word flag is followed by the word value
FlagWithValue(words, flag, value) ==
    \E i \in 1..(Len(words) - 1) : words[i] = flag /\ words[i + 1] = value

HasFlag(words, flag) == \E i \in 1..Len(words) : words[i] = flag

\* C10: for every combination of arguments the call returns the command with
\* each of the seven flags followed by its value, and with --seed followed by
\* the seed exactly when a seed is supplied (0 included); it never raises.
C10_RunCommand ==
    CmdDone =>
        /\ c_result.kind = "return"
        /\ LET w == c_result.words IN
            /\ FlagWithValue(w, "--jsonl_path", c_args.input_dir_path \o "/parsed_pdbs.jsonl")
            /\ FlagWithValue(w, "--tied_positions_jsonl", c_args.input_dir_path \o "/tied_pdbs.jsonl")
            /\ FlagWithValue(w, "--fixed_positions_jsonl", c_args.input_dir_path \o "/fixed_pdbs.jsonl")
            /\ FlagWithValue(w, "--out_folder", c_args.output_dir_path)
            /\ FlagWithValue(w, "--num_seq_per_target", IntToStr(c_args.num_sequence_per_target.n))
            /\ FlagWithValue(w, "--sampling_temp", c_args.sampling_temp.s)
            /\ FlagWithValue(w, "--batch_size", IntToStr(c_args.batch_size.n))
            /\ IF c_args.seed.type = "int"
               THEN FlagWithValue(w, "--seed", IntToStr(c_args.seed.n))
               ELSE ~HasFlag(w, "--seed")

=============================================================================
